---- MODULE Spec2Model ----
(***************************************************************************)
(* Presentation state machine of the card viewer (CardSlideshow.jsx; the   *)
(* same code is duplicated in CardCollection.jsx and Finitude.js).         *)
(*                                                                         *)
(* One action is one event-loop task: an event handler or timer callback   *)
(* runs against the values captured by the render that created it, the     *)
(* queued state updates are applied, the component re-renders and the      *)
(* autoplay effect (cleanup of the previous run, then the body) runs when  *)
(* one of its dependencies changed.                                        *)
(***************************************************************************)
EXTENDS Integers, Sequences, FiniteSets, TLC

VARIABLES
    \* props
    cardsLength, tickInterval, initialAutoPlay,
    \* useState
    currentCardIndex, isAutoPlaying, progress, isFlipped,
    touchStart, touchEnd, flipTimer, wasAutoPlayingBeforeFlip,
    \* useRef
    intervalRef, progressRef,
    \* browser timer table (live timers with the closure each one captured)
    timers,
    \* dependency values of the last run of the autoplay effect; its cleanup
    \* closes over the flipTimer of that render
    effectDeps,
    \* environment: a finger is on the screen
    touching,
    \* the component is mounted (false after teardown)
    mounted,
    \* Finitude only: view shown, kind of card shown, quote shown
    currentView, currentCardType, currentQuote,
    \* history (observation only, never read by the handlers)
    lastOp, navCalls, hadProgress, flipFrom, sinceFlip, navRun

props == <<cardsLength, tickInterval, initialAutoPlay>>
touch == <<touchStart, touchEnd, touching>>
engine == <<currentCardIndex, isAutoPlaying, progress, isFlipped, flipTimer,
            wasAutoPlayingBeforeFlip, intervalRef, progressRef, timers,
            effectDeps>>
history == <<lastOp, navCalls, hadProgress, flipFrom, sinceFlip, navRun>>
finitude == <<currentView, currentCardType, currentQuote>>
vars == <<props, touch, engine, history, mounted, finitude>>

----------------------------------------------------------------------------
(* Bounds *)

MaxCards == 3

\* the quotes getRandomQuote can return
Quotes == {"q1", "q2"}

\* clientX samples: 0 (left edge), and pairs at distance 49, 50 and 51
Coords == {0, 1, 50, 51, 52}

----------------------------------------------------------------------------
(* Program constants *)

DefaultTickInterval == 5
SwipeThreshold == 50
ProgressMax == 100
\* null timer handle (useState(null) / useRef(null)); real handles are >= 1
NoTimer == 0
\* null touch coordinate (useState(null))
NoTouch == -1
\* null current card (cards[currentCardIndex] || null)
NoCard == -1
\* null quote (useState(null))
NoQuote == "none"

----------------------------------------------------------------------------
(* Browser timers *)

TimerIds(T) == {t.id : t \in T}

\* mutant of ClearTimer: cancelling has no effect
ClearTimer_Noop(T, id) == T

\* clearTimeout / clearInterval: a null or stale handle is a no-op
ClearTimer(T, id) == {t \in T : t.id # id}

\* handles still referenced somewhere; a new handle is never one of these
HeldIds(T, s, iref, pref, deps) ==
    TimerIds(T) \cup {t.cFlipTimer : t \in T}
        \cup {s.flipTimer, iref, pref, deps.flipTimer, NoTimer}

FreshId(held) ==
    CHOOSE i \in 1..(Cardinality(held) + 1) :
        /\ i \notin held
        /\ \A j \in 1..(i - 1) : j \in held

\* the values a render's callbacks close over
Closure(s, len) ==
    [cFlipped |-> s.flipped, cFlipTimer |-> s.flipTimer, cWas |-> s.was,
     cLen |-> len]

NoClosure == [cFlipped |-> FALSE, cFlipTimer |-> NoTimer, cWas |-> FALSE,
              cLen |-> 0]

MkTimer(id, kind, c) ==
    [id |-> id, kind |-> kind, cFlipped |-> c.cFlipped,
     cFlipTimer |-> c.cFlipTimer, cWas |-> c.cWas, cLen |-> c.cLen]

Armed(T, kind) == {t \in T : t.kind = kind}

----------------------------------------------------------------------------
(* Component state as a record *)

State ==
    [idx |-> currentCardIndex, playing |-> isAutoPlaying, progress |-> progress,
     flipped |-> isFlipped, flipTimer |-> flipTimer,
     was |-> wasAutoPlayingBeforeFlip]

\* const currentCard = cards[currentCardIndex] || null; a card is named by
\* its position, NoCard is null
CurrentCard(idx, len) == IF idx >= 0 /\ idx < len THEN idx ELSE NoCard

DepsOf(s, len, tick) ==
    [playing |-> s.playing, idx |-> s.idx, len |-> len, tick |-> tick,
     flipped |-> s.flipped, flipTimer |-> s.flipTimer, was |-> s.was]

----------------------------------------------------------------------------
(* Navigation *)

\* mutant of NextIndex: stays on the last card instead of wrapping
NextIndex_Clamp(prev, len) == IF prev + 1 >= len THEN prev ELSE prev + 1

\* mutant of NextIndex: the modulo left out
NextIndex_NoWrap(prev, len) == prev + 1

NextIndex(prev, len) == (prev + 1) % len

\* mutant of PrevIndex: stops at the first card instead of wrapping
PrevIndex_NoWrap(prev, len) == IF prev = 0 THEN 0 ELSE prev - 1

\* mutant of PrevIndex: the index is left where it is
PrevIndex_Stay(prev, len) == prev

PrevIndex(prev, len) == (prev - 1 + len) % len

\* mutant of NavResetFlip: clears the flip but never resumes autoplay
NavResetFlip_NoResume(c, s) ==
    IF c.cFlipped
    THEN [s EXCEPT !.flipped = FALSE,
                   !.flipTimer = NoTimer,
                   !.was = IF c.cWas THEN FALSE ELSE @]
    ELSE s

\* mutant of NavResetFlip: the remembered play state is not cleared
NavResetFlip_KeepWas(c, s) ==
    IF c.cFlipped
    THEN [s EXCEPT !.flipped = FALSE,
                   !.flipTimer = NoTimer,
                   !.playing = IF c.cWas THEN TRUE ELSE @]
    ELSE s

\* "Reset flip state when navigating": state part
NavResetFlip(c, s) ==
    IF c.cFlipped
    THEN [s EXCEPT !.flipped = FALSE,
                   !.flipTimer = NoTimer,
                   !.playing = IF c.cWas THEN TRUE ELSE @,
                   !.was = IF c.cWas THEN FALSE ELSE @]
    ELSE s

\* "Reset flip state when navigating": clearTimeout(flipTimer)
NavClearFlipTimer(c, T) ==
    IF c.cFlipped THEN ClearTimer(T, c.cFlipTimer) ELSE T

\* mutant of NextCardState: setProgress(0) left out
NextCardState_KeepProgress(c, s) ==
    LET s1 == NavResetFlip(c, s)
    IN IF c.cLen > 0
       THEN [s1 EXCEPT !.idx = NextIndex(@, c.cLen)]
       ELSE s1

NextCardState(c, s) ==
    LET s1 == NavResetFlip(c, s)
    IN IF c.cLen > 0
       THEN [s1 EXCEPT !.idx = NextIndex(@, c.cLen), !.progress = 0]
       ELSE s1

\* mutant of PrevCardState: setProgress(0) left out
PrevCardState_KeepProgress(c, s) ==
    LET s1 == NavResetFlip(c, s)
    IN IF c.cLen > 0
       THEN [s1 EXCEPT !.idx = PrevIndex(@, c.cLen)]
       ELSE s1

PrevCardState(c, s) ==
    LET s1 == NavResetFlip(c, s)
    IN IF c.cLen > 0
       THEN [s1 EXCEPT !.idx = PrevIndex(@, c.cLen), !.progress = 0]
       ELSE s1

----------------------------------------------------------------------------
(* Flip *)

\* mutant of UnflipState: the manual flip back never resumes autoplay
UnflipState_NoResume(c, s) ==
    [s EXCEPT !.flipped = FALSE,
              !.flipTimer = NoTimer,
              !.was = FALSE]

\* handleCardClick, branch isFlipped
UnflipState(c, s) ==
    [s EXCEPT !.flipped = FALSE,
              !.flipTimer = NoTimer,
              !.playing = IF c.cWas THEN TRUE ELSE @,
              !.was = FALSE]

\* mutant of FlipState: remembers "was playing" whatever the play state
FlipState_SnapshotTrue(playing, s, timer) ==
    [s EXCEPT !.was = TRUE,
              !.playing = IF playing THEN FALSE ELSE @,
              !.flipped = TRUE,
              !.flipTimer = timer]

\* mutant of FlipState: autoplay is not paused by the flip
FlipState_NoPause(playing, s, timer) ==
    [s EXCEPT !.was = playing,
              !.flipped = TRUE,
              !.flipTimer = timer]

\* mutant of FlipState: setFlipTimer(timer) left out
FlipState_NoStore(playing, s, timer) ==
    [s EXCEPT !.was = playing,
              !.playing = IF playing THEN FALSE ELSE @,
              !.flipped = TRUE]

\* handleCardClick, branch not flipped; playing is the isAutoPlaying of the
\* render, timer the handle returned by setTimeout
FlipState(playing, s, timer) ==
    [s EXCEPT !.was = playing,
              !.playing = IF playing THEN FALSE ELSE @,
              !.flipped = TRUE,
              !.flipTimer = timer]

\* the setTimeout callback created by handleCardClick; c is the closure of
\* the render in which the card was clicked
FlipTimeoutState(c, s) ==
    [s EXCEPT !.flipped = FALSE,
              !.flipTimer = NoTimer,
              !.playing = IF c.cWas THEN TRUE ELSE @,
              !.was = FALSE]

----------------------------------------------------------------------------
(* Autoplay *)

\* mutant of TickProgress: no wrap at 100
TickProgress_NoWrap(prev) == prev + 1

\* mutant of TickProgress: wraps one tick early, 100 is never shown
TickProgress_WrapEarly(prev) == IF prev + 1 >= ProgressMax THEN 0 ELSE prev + 1

TickProgress(prev) == IF prev >= ProgressMax THEN 0 ELSE prev + 1

\* mutant of ShouldAutoPlay: the flip is not looked at
ShouldAutoPlay_IgnoreFlip(s, len) == s.playing /\ len > 0

ShouldAutoPlay(s, len) == s.playing /\ len > 0 /\ ~s.flipped

\* mutant of StopAutoPlayTimers: the progress interval is not cleared
StopAutoPlayTimers_KeepProgress(T, iref, pref) ==
    IF iref # NoTimer THEN ClearTimer(T, iref) ELSE T

\* stopAutoPlay: timers part
StopAutoPlayTimers(T, iref, pref) ==
    LET T1 == IF iref # NoTimer THEN ClearTimer(T, iref) ELSE T
    IN IF pref # NoTimer THEN ClearTimer(T1, pref) ELSE T1

\* mutant of EffectCleanupTimers: clearTimeout(flipTimer) left out
EffectCleanupTimers_NoFlip(T, iref, pref, ft) ==
    StopAutoPlayTimers(T, iref, pref)

\* cleanup returned by the effect; ft is the flipTimer of the render that
\* registered it
EffectCleanupTimers(T, iref, pref, ft) ==
    LET T1 == StopAutoPlayTimers(T, iref, pref)
    IN IF ft # NoTimer THEN ClearTimer(T1, ft) ELSE T1

\* mutant of AfterRender: the setProgress(0) of startAutoPlay / stopAutoPlay
\* left out
AfterRender_KeepProgress(s, T, iref, pref, deps, len, tick) ==
    LET newDeps == DepsOf(s, len, tick)
    IN IF newDeps = deps
       THEN [s |-> s, T |-> T, iref |-> iref, pref |-> pref, deps |-> deps]
       ELSE
         LET T1 == EffectCleanupTimers(T, iref, pref, deps.flipTimer)
             s1 == s
         IN IF ShouldAutoPlay(s1, len)
            THEN \* startAutoPlay
              LET T2 == StopAutoPlayTimers(T1, iref, pref)
                  pid == FreshId(HeldIds(T2, s1, iref, pref, newDeps))
                  T3 == T2 \cup {MkTimer(pid, "progress", NoClosure)}
                  aid == FreshId(HeldIds(T3, s1, iref, pid, newDeps))
                  T4 == T3 \cup {MkTimer(aid, "advance", Closure(s1, len))}
              IN [s |-> s1, T |-> T4, iref |-> aid, pref |-> pid,
                  deps |-> newDeps]
            ELSE \* stopAutoPlay
              [s |-> s1, T |-> StopAutoPlayTimers(T1, iref, pref),
               iref |-> iref, pref |-> pref, deps |-> newDeps]

\* result of one task: state s and timer table T after the handler, then the
\* render and the autoplay effect
AfterRender(s, T, iref, pref, deps, len, tick) ==
    LET newDeps == DepsOf(s, len, tick)
    IN IF newDeps = deps
       THEN [s |-> s, T |-> T, iref |-> iref, pref |-> pref, deps |-> deps]
       ELSE
         LET T1 == EffectCleanupTimers(T, iref, pref, deps.flipTimer)
             s1 == [s EXCEPT !.progress = 0]
         IN IF ShouldAutoPlay(s1, len)
            THEN \* startAutoPlay
              LET T2 == StopAutoPlayTimers(T1, iref, pref)
                  pid == FreshId(HeldIds(T2, s1, iref, pref, newDeps))
                  T3 == T2 \cup {MkTimer(pid, "progress", NoClosure)}
                  aid == FreshId(HeldIds(T3, s1, iref, pid, newDeps))
                  T4 == T3 \cup {MkTimer(aid, "advance", Closure(s1, len))}
              IN [s |-> s1, T |-> T4, iref |-> aid, pref |-> pid,
                  deps |-> newDeps]
            ELSE \* stopAutoPlay
              [s |-> s1, T |-> StopAutoPlayTimers(T1, iref, pref),
               iref |-> iref, pref |-> pref, deps |-> newDeps]

Commit(r) ==
    /\ currentCardIndex' = r.s.idx
    /\ isAutoPlaying' = r.s.playing
    /\ progress' = r.s.progress
    /\ isFlipped' = r.s.flipped
    /\ flipTimer' = r.s.flipTimer
    /\ wasAutoPlayingBeforeFlip' = r.s.was
    /\ timers' = r.T
    /\ intervalRef' = r.iref
    /\ progressRef' = r.pref
    /\ effectDeps' = r.deps

Task(s, T) ==
    Commit(AfterRender(s, T, intervalRef, progressRef, effectDeps,
                       cardsLength, tickInterval))

----------------------------------------------------------------------------
(* History bookkeeping *)

NoFlip == [set |-> FALSE, playing |-> FALSE, idx |-> 0, again |-> FALSE]
NoRun == [dir |-> "none", count |-> 0, start |-> 0]

\* op: name of the task; nav: the navigate calls it made; flipOn: the task
\* flipped the card to its back; engineOp: the task called an engine
\* operation or was a timer callback.
\* flipFrom: play flag and index just before the latest flip to the back, kept
\*   for the two engine tasks that follow it (sinceFlip counts them); again
\*   tells that the flip before it was that recent too.
\* navRun: the current run of consecutive navigate calls in one direction.
Hist(op, nav, flipOn, engineOp) ==
    /\ lastOp' = op
    /\ navCalls' = nav
    /\ hadProgress' = (progress > 0)
    /\ IF flipOn
       THEN /\ flipFrom' = [set |-> TRUE, playing |-> isAutoPlaying,
                            idx |-> currentCardIndex, again |-> flipFrom.set]
            /\ sinceFlip' = 0
       ELSE IF engineOp /\ flipFrom.set
       THEN IF sinceFlip = 0
            THEN flipFrom' = flipFrom /\ sinceFlip' = 1
            ELSE flipFrom' = NoFlip /\ sinceFlip' = 0
       ELSE UNCHANGED <<flipFrom, sinceFlip>>
    /\ IF nav = <<>>
       THEN IF engineOp THEN navRun' = NoRun ELSE UNCHANGED navRun
       ELSE IF navRun.dir = nav[1] /\ navRun.count < cardsLength
       THEN navRun' = [navRun EXCEPT !.count = @ + 1]
       ELSE navRun' = [dir |-> nav[1], count |-> 1,
                       start |-> currentCardIndex]

----------------------------------------------------------------------------
(* Initial state: first render and first run of the autoplay effect *)

\* mutant of InitialState: initialAutoPlay ignored
InitialState_Playing(auto) ==
    [idx |-> 0, playing |-> TRUE, progress |-> 0, flipped |-> FALSE,
     flipTimer |-> NoTimer, was |-> FALSE]

InitialState(auto) ==
    [idx |-> 0, playing |-> auto, progress |-> 0, flipped |-> FALSE,
     flipTimer |-> NoTimer, was |-> FALSE]

\* no effect has run yet
MountDeps ==
    [playing |-> FALSE, idx |-> -1, len |-> -1, tick |-> 0,
     flipped |-> FALSE, flipTimer |-> NoTimer, was |-> FALSE]

Mounted(len, tick, auto) ==
    AfterRender(InitialState(auto), {}, NoTimer, NoTimer, MountDeps, len, tick)

Init ==
    /\ cardsLength \in 0..MaxCards
    /\ tickInterval = DefaultTickInterval
    /\ initialAutoPlay \in BOOLEAN
    /\ LET r == Mounted(cardsLength, tickInterval, initialAutoPlay)
       IN /\ currentCardIndex = r.s.idx
          /\ isAutoPlaying = r.s.playing
          /\ progress = r.s.progress
          /\ isFlipped = r.s.flipped
          /\ flipTimer = r.s.flipTimer
          /\ wasAutoPlayingBeforeFlip = r.s.was
          /\ timers = r.T
          /\ intervalRef = r.iref
          /\ progressRef = r.pref
          /\ effectDeps = r.deps
    /\ touchStart = NoTouch
    /\ touchEnd = NoTouch
    /\ touching = FALSE
    /\ mounted = TRUE
    /\ currentView = "main"
    /\ currentCardType = "activity"
    /\ currentQuote = NoQuote
    /\ lastOp = "init"
    /\ navCalls = <<>>
    /\ hadProgress = FALSE
    /\ flipFrom = NoFlip
    /\ sinceFlip = 0
    /\ navRun = NoRun

----------------------------------------------------------------------------
(* Tasks *)

\* mutant of Rendered: no early return for an empty cards array
Rendered_Always == TRUE

\* the card and the controls are rendered only when there are cards
Rendered == cardsLength > 0

\* onNext button
nextCard ==
    /\ Rendered
    /\ LET c == Closure(State, cardsLength)
       IN Task(NextCardState(c, State), NavClearFlipTimer(c, timers))
    /\ Hist("nextCard", <<"next">>, FALSE, TRUE)
    /\ UNCHANGED <<props, touch, mounted, finitude>>

\* onPrev button
prevCard ==
    /\ Rendered
    /\ LET c == Closure(State, cardsLength)
       IN Task(PrevCardState(c, State), NavClearFlipTimer(c, timers))
    /\ Hist("prevCard", <<"prev">>, FALSE, TRUE)
    /\ UNCHANGED <<props, touch, mounted, finitude>>

\* clearTimeout(flipTimer) of the un-flip branch
UnflipClearTimer(c, T) == ClearTimer(T, c.cFlipTimer)

\* setTimeout(..., 5000) of the flip branch
FlipArmTimer(c, T, id) == T \cup {MkTimer(id, "flip", c)}

handleCardClick ==
    /\ Rendered
    /\ LET c == Closure(State, cardsLength)
       IN IF isFlipped
          THEN /\ Task(UnflipState(c, State), UnflipClearTimer(c, timers))
               /\ Hist("toggleFlip", <<>>, FALSE, TRUE)
          ELSE LET id == FreshId(HeldIds(timers, State, intervalRef,
                                         progressRef, effectDeps))
               IN /\ Task(FlipState(isAutoPlaying, State, id),
                          FlipArmTimer(c, timers, id))
                  /\ Hist("toggleFlip", <<>>, TRUE, TRUE)
    /\ UNCHANGED <<props, touch, mounted, finitude>>

\* the flip-revert timeout fires (one-shot)
flipTimeout ==
    /\ \E t \in Armed(timers, "flip") :
          Task(FlipTimeoutState(t, State), timers \ {t})
    /\ Hist("flipRevert", <<>>, FALSE, TRUE)
    /\ UNCHANGED <<props, touch, mounted, finitude>>

\* mutant of PlayPauseState: the button can only pause
PlayPauseState_OnlyPause(playing, s) == [s EXCEPT !.playing = FALSE]

PlayPauseState(playing, s) == [s EXCEPT !.playing = ~playing]

handlePlayPauseClick ==
    /\ Rendered
    /\ Task(PlayPauseState(isAutoPlaying, State), timers)
    /\ Hist("togglePlay", <<>>, FALSE, TRUE)
    /\ UNCHANGED <<props, touch, mounted, finitude>>

\* the card-rotation interval fires: nextCard of the render that armed it
advanceInterval ==
    /\ \E t \in Armed(timers, "advance") :
          Task(NextCardState(t, State), NavClearFlipTimer(t, timers))
    /\ Hist("advance", <<"next">>, FALSE, TRUE)
    /\ UNCHANGED <<props, touch, mounted, finitude>>

\* mutant of progressInterval: the ticker also moves to the next card
progressInterval_Navigates ==
    /\ \E t \in Armed(timers, "progress") :
          Task(NextCardState(Closure(State, cardsLength),
                             [State EXCEPT !.progress = TickProgress(@)]),
               timers)
    /\ Hist("tick", <<>>, FALSE, TRUE)
    /\ UNCHANGED <<props, touch, mounted, finitude>>

\* the progress interval fires
progressInterval ==
    /\ \E t \in Armed(timers, "progress") :
          Task([State EXCEPT !.progress = TickProgress(@)], timers)
    /\ Hist("tick", <<>>, FALSE, TRUE)
    /\ UNCHANGED <<props, touch, mounted, finitude>>

----------------------------------------------------------------------------
(* Swipe gestures *)

\* JavaScript truthiness of a touch coordinate: null and 0 are both falsy
Falsy(x) == x = NoTouch \/ x = 0

IsLeftSwipe(distance) == distance > SwipeThreshold

IsRightSwipe(distance) == distance < -SwipeThreshold

\* the navigate call handleTouchEnd makes for the recorded coordinates
SwipeNav(ts, te) ==
    IF Falsy(ts) \/ Falsy(te) THEN "none"
    ELSE IF IsLeftSwipe(ts - te) THEN "next"
    ELSE IF IsRightSwipe(ts - te) THEN "prev"
    ELSE "none"

\* mutant of handleTouchStart: setTouchEnd(null) left out
handleTouchStart_KeepEnd ==
    /\ Rendered
    /\ ~touching
    /\ \E x \in Coords : touchStart' = x
    /\ touching' = TRUE
    /\ Task(State, timers)
    /\ Hist("touchStart", <<>>, FALSE, FALSE)
    /\ UNCHANGED <<props, touchEnd, mounted, finitude>>

handleTouchStart ==
    /\ Rendered
    /\ ~touching
    /\ \E x \in Coords :
          /\ touchEnd' = NoTouch
          /\ touchStart' = x
    /\ touching' = TRUE
    /\ Task(State, timers)
    /\ Hist("touchStart", <<>>, FALSE, FALSE)
    /\ UNCHANGED <<props, mounted, finitude>>

handleTouchMove ==
    /\ Rendered
    /\ touching
    /\ \E x \in Coords : touchEnd' = x
    /\ Task(State, timers)
    /\ Hist("touchMove", <<>>, FALSE, FALSE)
    /\ UNCHANGED <<props, touchStart, touching, mounted, finitude>>

handleTouchEnd ==
    /\ Rendered
    /\ touching
    /\ touching' = FALSE
    /\ LET c == Closure(State, cardsLength)
           nav == SwipeNav(touchStart, touchEnd)
       IN CASE nav = "next" ->
                 /\ Task(NextCardState(c, State), NavClearFlipTimer(c, timers))
                 /\ Hist("touchEnd", <<"next">>, FALSE, TRUE)
            [] nav = "prev" ->
                 /\ Task(PrevCardState(c, State), NavClearFlipTimer(c, timers))
                 /\ Hist("touchEnd", <<"prev">>, FALSE, TRUE)
            [] OTHER ->
                 /\ Task(State, timers)
                 /\ Hist("touchEnd", <<>>, FALSE, FALSE)
    /\ UNCHANGED <<props, touchStart, touchEnd, mounted, finitude>>

----------------------------------------------------------------------------

\* buttons, card click and timer callbacks
Next ==
    \/ nextCard
    \/ prevCard
    \/ handleCardClick
    \/ flipTimeout
    \/ handlePlayPauseClick
    \/ advanceInterval
    \/ progressInterval

Spec == Init /\ [][Next]_vars

\* the same with the swipe gestures on the card
NextTouch ==
    \/ Next
    \/ handleTouchStart
    \/ handleTouchMove
    \/ handleTouchEnd

SpecTouch == Init /\ [][NextTouch]_vars

----------------------------------------------------------------------------
(* Session: the parent replaces the cards prop, the component unmounts *)

\* the parent passes a new cards array (App: setCards after a category or
\* language change); component state is kept, the effect sees cards.length
replaceCards ==
    /\ mounted
    /\ \E newLen \in 0..MaxCards :
          /\ cardsLength' = newLen
          /\ Commit(AfterRender(State, timers, intervalRef, progressRef,
                                effectDeps, newLen, tickInterval))
    /\ Hist("replaceCards", <<>>, FALSE, TRUE)
    /\ UNCHANGED <<tickInterval, initialAutoPlay, touch, mounted, finitude>>

\* teardown: React runs the cleanup of the last effect run; state updates of
\* an unmounted component are dropped
unmount ==
    /\ mounted
    /\ mounted' = FALSE
    /\ timers' = EffectCleanupTimers(timers, intervalRef, progressRef,
                                     effectDeps.flipTimer)
    /\ Hist("unmount", <<>>, FALSE, TRUE)
    /\ UNCHANGED <<props, touch, currentCardIndex, isAutoPlaying, progress,
                   isFlipped,
                   flipTimer, wasAutoPlayingBeforeFlip, intervalRef,
                   progressRef, effectDeps, finitude>>

\* user events need the rendered component; a timer callback runs whenever
\* its timer is still live
NextSession ==
    \/ mounted /\ nextCard
    \/ mounted /\ prevCard
    \/ mounted /\ handleCardClick
    \/ mounted /\ handlePlayPauseClick
    \/ flipTimeout
    \/ advanceInterval
    \/ progressInterval
    \/ replaceCards
    \/ unmount

SpecSession == Init /\ [][NextSession]_vars

----------------------------------------------------------------------------
(* Finitude.js: the same engine; a navigation step shows a quote instead of *)
(* the next activity with probability quoteProbability, and a settings     *)
(* view replaces the card                                                  *)

\* mutant of NavigateToNextCardState: a quote also moves currentCard
NavigateToNextCardState_QuoteMoves(c, s, quote) ==
    IF c.cLen > 0
    THEN [s EXCEPT !.idx = NextIndex(@, c.cLen), !.progress = 0]
    ELSE s

\* navigateToNextCard; quote is the outcome of Math.random() < quoteProbability
NavigateToNextCardState(c, s, quote) ==
    IF c.cLen > 0
    THEN IF quote
         THEN [s EXCEPT !.progress = 0]
         ELSE [s EXCEPT !.idx = NextIndex(@, c.cLen), !.progress = 0]
    ELSE s

\* Finitude nextCard: flip reset, then navigateToNextCard
Finitude_NextCardState(c, s, quote) ==
    NavigateToNextCardState(c, NavResetFlip(c, s), quote)

\* Finitude prevCard
Finitude_PrevCardState(c, s, quote) ==
    LET s1 == NavResetFlip(c, s)
    IN IF c.cLen > 0
       THEN IF quote
            THEN [s1 EXCEPT !.progress = 0]
            ELSE [s1 EXCEPT !.idx = PrevIndex(@, c.cLen), !.progress = 0]
       ELSE s1

\* setCurrentCardType / setCurrentQuote of a navigation step
ShowCard(len, quote) ==
    IF len > 0
    THEN IF quote
         THEN /\ currentCardType' = "quote"
              /\ currentQuote' \in Quotes
         ELSE /\ currentCardType' = "activity"
              /\ UNCHANGED currentQuote
    ELSE UNCHANGED <<currentCardType, currentQuote>>

\* the card and its controls are shown in the main view only
MainView == Rendered /\ currentView = "main"

Finitude_nextCard ==
    /\ MainView
    /\ \E quote \in BOOLEAN :
          LET c == Closure(State, cardsLength)
          IN /\ Task(Finitude_NextCardState(c, State, quote),
                     NavClearFlipTimer(c, timers))
             /\ ShowCard(c.cLen, quote)
    /\ Hist("nextCard", <<"next">>, FALSE, TRUE)
    /\ UNCHANGED <<props, touch, mounted, currentView>>

Finitude_prevCard ==
    /\ MainView
    /\ \E quote \in BOOLEAN :
          LET c == Closure(State, cardsLength)
          IN /\ Task(Finitude_PrevCardState(c, State, quote),
                     NavClearFlipTimer(c, timers))
             /\ ShowCard(c.cLen, quote)
    /\ Hist("prevCard", <<"prev">>, FALSE, TRUE)
    /\ UNCHANGED <<props, touch, mounted, currentView>>

\* the card-rotation interval fires: navigateToNextCard of the render that
\* armed it (no flip reset on this path)
Finitude_advanceInterval ==
    /\ \E t \in Armed(timers, "advance") : \E quote \in BOOLEAN :
          /\ Task(NavigateToNextCardState(t, State, quote), timers)
          /\ ShowCard(t.cLen, quote)
    /\ Hist("advance", <<"next">>, FALSE, TRUE)
    /\ UNCHANGED <<props, touch, mounted, currentView>>

SettingsState(s) == [s EXCEPT !.playing = FALSE]

\* mutant of BackToMainState: the play state is left as it is
BackToMainState_Keep(s) == s

BackToMainState(s) == [s EXCEPT !.playing = TRUE]

handleSettingsClick ==
    /\ MainView
    /\ currentView' = "settings"
    /\ Task(SettingsState(State), timers)
    /\ Hist("settings", <<>>, FALSE, TRUE)
    /\ UNCHANGED <<props, touch, mounted, currentCardType, currentQuote>>

handleBackToMain ==
    /\ Rendered
    /\ currentView = "settings"
    /\ currentView' = "main"
    /\ Task(BackToMainState(State), timers)
    /\ Hist("backToMain", <<>>, FALSE, TRUE)
    /\ UNCHANGED <<props, touch, mounted, currentCardType, currentQuote>>

\* settings -> lifespan / activities screen
openSubView ==
    /\ Rendered
    /\ currentView = "settings"
    /\ \E v \in {"lifespan", "activities"} : currentView' = v
    /\ Task(State, timers)
    /\ Hist("subView", <<>>, FALSE, FALSE)
    /\ UNCHANGED <<props, touch, mounted, currentCardType, currentQuote>>

\* back arrow of the lifespan / activities screen
backToSettings ==
    /\ Rendered
    /\ currentView \in {"lifespan", "activities"}
    /\ currentView' = "settings"
    /\ Task(State, timers)
    /\ Hist("backToSettings", <<>>, FALSE, FALSE)
    /\ UNCHANGED <<props, touch, mounted, currentCardType, currentQuote>>

\* Finitude starts with isAutoPlaying = true
InitFinitude == Init /\ initialAutoPlay = TRUE

NextFinitude ==
    \/ Finitude_nextCard
    \/ Finitude_prevCard
    \/ MainView /\ handleCardClick
    \/ MainView /\ handlePlayPauseClick
    \/ flipTimeout
    \/ Finitude_advanceInterval
    \/ progressInterval
    \/ handleSettingsClick
    \/ handleBackToMain
    \/ openSubView
    \/ backToSettings

SpecFinitude == InitFinitude /\ [][NextFinitude]_vars

----------------------------------------------------------------------------
(* Properties *)

FlipTimers == Armed(timers, "flip")
AdvanceTimers == Armed(timers, "advance")
ProgressTimers == Armed(timers, "progress")

\* the task that just ran directly followed a flip to the back
RightAfterFlip == flipFrom.set /\ sinceFlip = 1

\* C1: starting in PLAYING, toggleFlip() followed by the flip-revert timer
\* firing, with nothing in between, ends un-flipped, playing again and on the
\* same index.
C1_FlipRevertResumes ==
    (RightAfterFlip /\ flipFrom.playing /\ lastOp = "flipRevert")
        => /\ ~isFlipped
           /\ isAutoPlaying
           /\ currentCardIndex = flipFrom.idx

\* C2: starting in PLAYING, toggleFlip() followed by a second toggleFlip()
\* before the revert timer fires ends with isFlipped = false, isPlaying = true,
\* pendingResumeAfterFlip = false and the index unchanged.
C2_FlipTwiceResumes ==
    (RightAfterFlip /\ flipFrom.playing /\ lastOp = "toggleFlip")
        => /\ ~isFlipped
           /\ isAutoPlaying
           /\ ~wasAutoPlayingBeforeFlip
           /\ currentCardIndex = flipFrom.idx

C2_Witness ==
    /\ RightAfterFlip /\ flipFrom.playing /\ lastOp = "toggleFlip"
    /\ flipFrom.idx = 1
    /\ isAutoPlaying /\ ~isFlipped

\* C3: starting in PAUSED, a toggleFlip() resolved by the revert timer, by a
\* second toggleFlip() or by navigate, with no togglePlay in between, leaves
\* isPlaying = false.
C3_FlipFromPausedStaysPaused ==
    (/\ RightAfterFlip /\ ~flipFrom.playing
     /\ \/ lastOp \in {"flipRevert", "toggleFlip"}
        \/ navCalls # <<>>)
        => ~isAutoPlaying

C3_Witness ==
    /\ RightAfterFlip /\ ~flipFrom.playing
    /\ lastOp = "flipRevert"
    /\ ~isFlipped /\ ~isAutoPlaying

C5_FlipEffect ==
    (flipFrom.set /\ sinceFlip = 0 /\ lastOp = "toggleFlip")
        => /\ wasAutoPlayingBeforeFlip = flipFrom.playing
           /\ ~isAutoPlaying
           /\ isFlipped
           /\ Cardinality(FlipTimers) = 1
           /\ flipTimer \in TimerIds(FlipTimers)
           /\ AdvanceTimers = {}
           /\ ProgressTimers = {}
           /\ currentCardIndex = flipFrom.idx

C5_Witness ==
    /\ flipFrom.set /\ sinceFlip = 0 /\ lastOp = "toggleFlip"
    /\ flipFrom.playing /\ hadProgress
    /\ wasAutoPlayingBeforeFlip /\ isFlipped

\* C6: after every task, exactly one advance timer and exactly one progress
\* ticker are armed if isPlaying and not isFlipped and itemCount > 0, and
\* none of either otherwise.
C6_AutoplayTimersMatchState ==
    LET on == isAutoPlaying /\ ~isFlipped /\ cardsLength > 0
        k == IF on THEN 1 ELSE 0
    IN /\ Cardinality(AdvanceTimers) = k
       /\ Cardinality(ProgressTimers) = k
       /\ on => /\ intervalRef \in TimerIds(AdvanceTimers)
                /\ progressRef \in TimerIds(ProgressTimers)

C6_Witness ==
    /\ lastOp = "togglePlay" /\ isAutoPlaying /\ ~isFlipped
    /\ currentCardIndex = 1
    /\ Cardinality(AdvanceTimers) = 1
    /\ Cardinality(ProgressTimers) = 1

\* C7: for every item count n > 0 and every starting index, n calls of
\* navigate(next) return the index to its starting value, and so do n calls
\* of navigate(previous).
C7_WrapAround ==
    (navRun.count = cardsLength /\ cardsLength > 0)
        => currentCardIndex = navRun.start

C7_Witness ==
    /\ cardsLength = 3
    /\ navRun = [dir |-> "prev", count |-> 3, start |-> 1]
    /\ currentCardIndex = 1

\* C8: right after any navigate call (next or previous, by hand or by the
\* advance timer) with itemCount > 0, progress is 0 whatever it was before.
C8_NavigateResetsProgress ==
    (navCalls # <<>> /\ cardsLength > 0) => progress = 0

C8_Witness ==
    /\ navCalls = <<"next">> /\ lastOp = "nextCard"
    /\ cardsLength = 1
    /\ hadProgress /\ progress = 0

\* C9: in every reachable state at most one flip-revert timer is pending.
C9_AtMostOneFlipTimer == Cardinality(FlipTimers) <= 1

C9_Witness ==
    /\ flipFrom.set /\ flipFrom.again
    /\ isFlipped
    /\ Cardinality(FlipTimers) = 1

\* C10: on touch-end with distance = startX - endX, a distance above 50 makes
\* exactly one navigate(next), a distance below -50 exactly one
\* navigate(previous), and any other distance no navigation.
C10_SwipeThreshold ==
    (lastOp = "touchEnd" /\ touchStart # NoTouch /\ touchEnd # NoTouch)
        => LET distance == touchStart - touchEnd
           IN /\ distance > 50 => navCalls = <<"next">>
              /\ distance < -50 => navCalls = <<"prev">>
              /\ (distance >= -50 /\ distance <= 50) => navCalls = <<>>

\* C11: in PLAYING, each firing of the advance timer increases the index by
\* exactly one modulo the item count and resets progress to 0; with three
\* items from index 0, one firing gives index 1 and the third gives 0 again.
C11_AdvanceStep ==
    [][lastOp' = "advance"
         => /\ isAutoPlaying /\ ~isFlipped
            /\ currentCardIndex' = (currentCardIndex + 1) % cardsLength
            /\ progress' = 0
            /\ (cardsLength = 3 /\ currentCardIndex = 0)
                   => currentCardIndex' = 1
            /\ (/\ cardsLength = 3
                /\ navRun' = [dir |-> "next", count |-> 3, start |-> 0])
                   => currentCardIndex' = 0]_vars

C11_Witness ==
    /\ lastOp = "advance"
    /\ cardsLength = 3
    /\ navRun = [dir |-> "next", count |-> 3, start |-> 0]
    /\ currentCardIndex = 0
    /\ isAutoPlaying

\* C12: with no items, navigate, toggleFlip and togglePlay leave the index
\* and the flip flag as they are, there is no current item, and no advance
\* timer, progress ticker or flip-revert timer is armed.
C12_EmptySequence ==
    [][cardsLength' = 0
         => /\ timers' = {}
            /\ CurrentCard(currentCardIndex', cardsLength') = NoCard
            /\ cardsLength = 0
                   => /\ currentCardIndex' = currentCardIndex
                      /\ isFlipped' = isFlipped]_vars

C12_Witness ==
    /\ cardsLength = 0
    /\ lastOp = "replaceCards"
    /\ isAutoPlaying /\ hadProgress
    /\ timers = {}

\* C13: when the item sequence is replaced by one of a different length, the
\* index is clamped to min(index, newLength - 1), or 0 if the new sequence is
\* empty, so that index < itemCount whenever itemCount > 0.
C13_ReplaceClampsIndex ==
    [][(lastOp' = "replaceCards" /\ cardsLength' # cardsLength)
         => /\ currentCardIndex' =
                  IF cardsLength' = 0 THEN 0
                  ELSE IF currentCardIndex < cardsLength' - 1
                       THEN currentCardIndex ELSE cardsLength' - 1
            /\ cardsLength' > 0 => currentCardIndex' < cardsLength']_vars

\* C14: when the item sequence is replaced while a card is flipped, the
\* flip-revert timer is cancelled, isFlipped and pendingResumeAfterFlip are
\* reset to false and progress to 0.
C14_ReplaceResetsFlip ==
    [][(isFlipped /\ lastOp' = "replaceCards")
         => /\ FlipTimers' = {}
            /\ ~isFlipped'
            /\ ~wasAutoPlayingBeforeFlip'
            /\ progress' = 0]_vars

\* C15: with a fixed item sequence of itemCount > 0, the index is in
\* [0, itemCount) in every reachable state.
C15_IndexInRange ==
    cardsLength > 0
        => currentCardIndex \in 0..(cardsLength - 1)

C15_Witness ==
    /\ cardsLength = 3
    /\ navRun = [dir |-> "prev", count |-> 1, start |-> 0]
    /\ currentCardIndex = 2

\* C16: progress is an integer in [0, 100] in every reachable state.
C16_ProgressInRange == progress \in 0..100

C16_Witness == progress = 100 /\ lastOp = "tick"

\* C17: in every reachable state isFlipped = false implies
\* pendingResumeAfterFlip = false.
C17_PendingOnlyWhileFlipped == ~isFlipped => ~wasAutoPlayingBeforeFlip

C17_Witness ==
    /\ RightAfterFlip /\ flipFrom.playing
    /\ navCalls = <<"next">>
    /\ ~isFlipped /\ ~wasAutoPlayingBeforeFlip

\* C18: the initial state has index 0, isFlipped = false, progress = 0,
\* pendingResumeAfterFlip = false and no flip-revert timer; isPlaying equals
\* the initial-autoplay flag; the advance timer and the progress ticker are
\* armed iff that flag is true and itemCount > 0.
C18_InitialState ==
    lastOp = "init"
        => /\ currentCardIndex = 0
           /\ ~isFlipped
           /\ progress = 0
           /\ ~wasAutoPlayingBeforeFlip
           /\ flipTimer = NoTimer /\ FlipTimers = {}
           /\ isAutoPlaying = initialAutoPlay
           /\ LET k == IF initialAutoPlay /\ cardsLength > 0 THEN 1 ELSE 0
              IN /\ Cardinality(AdvanceTimers) = k
                 /\ Cardinality(ProgressTimers) = k

C18_Witness ==
    /\ lastOp = "init"
    /\ ~initialAutoPlay /\ cardsLength = 2
    /\ ~isAutoPlaying /\ timers = {}

\* C19: after teardown from any reachable state no advance timer, progress
\* ticker or flip-revert timer remains pending.
C19_NoTimerAfterTeardown == ~mounted => timers = {}

C19_Witness ==
    /\ ~mounted /\ lastOp = "unmount"
    /\ RightAfterFlip /\ isFlipped /\ flipTimer # NoTimer
    /\ timers = {}

\* C20: from any flipped state, the flip-revert timer firing gives the same
\* isFlipped, isPlaying, pendingResumeAfterFlip and index as a manual
\* toggleFlip() from that state.
C20_RevertEqualsUnflip ==
    \A t \in FlipTimers :
        isFlipped =>
            LET a == FlipTimeoutState(t, State)
                b == UnflipState(Closure(State, cardsLength), State)
            IN <<a.flipped, a.playing, a.was, a.idx>>
                   = <<b.flipped, b.playing, b.was, b.idx>>

\* C21: in every reachable state with isFlipped = true a flip-revert timer
\* is pending, also after togglePlay is invoked while flipped.
C21_FlippedHasTimer == isFlipped => FlipTimers # {}

\* C22: a pending flip-revert timer implies isFlipped = true, and while the
\* same timer stays pending the index does not change: a manual un-flip or a
\* navigate while flipped cancels it.
C22_TimerOnlyWhileFlipped ==
    [][/\ FlipTimers' # {} => isFlipped'
       /\ (FlipTimers \cap FlipTimers') # {}
              => currentCardIndex' = currentCardIndex
       /\ (isFlipped /\ ~isFlipped') => FlipTimers' = {}]_vars

C22_Witness ==
    /\ RightAfterFlip
    /\ navCalls = <<"prev">>
    /\ cardsLength = 2 /\ currentCardIndex # flipFrom.idx
    /\ ~isFlipped /\ FlipTimers = {}

\* C23: while the advance timer is armed, every reset of progress to 0 by an
\* operation (a manual navigate with one item included) coincides with a
\* restart of the advance period.
C23_ResetRestartsPeriod ==
    [][(/\ AdvanceTimers' # {}
        /\ progress > 0 /\ progress' = 0
        /\ lastOp' \notin {"tick", "advance"})
         => intervalRef' # intervalRef]_vars

\* C24: with itemCount = 1, navigate(next) and navigate(previous) leave the
\* index at 0 and set progress to 0.
C24_SingleItemNavigate ==
    (cardsLength = 1 /\ navCalls # <<>>)
        => currentCardIndex = 0 /\ progress = 0

C24_Witness ==
    /\ cardsLength = 1
    /\ lastOp = "prevCard" /\ hadProgress
    /\ currentCardIndex = 0 /\ progress = 0

\* C25: a progress-ticker firing changes only progress: index, isPlaying,
\* isFlipped and pendingResumeAfterFlip stay and no navigate call is made;
\* the index changes only in a task that made a navigate call.
C25_TickFrame ==
    [][/\ lastOp' = "tick"
           => /\ UNCHANGED <<currentCardIndex, isAutoPlaying, isFlipped,
                             wasAutoPlayingBeforeFlip>>
              /\ navCalls' = <<>>
       /\ currentCardIndex' # currentCardIndex => navCalls' # <<>>]_vars

C25_Witness ==
    /\ lastOp = "tick"
    /\ progress = 2 /\ currentCardIndex = 1
    /\ isAutoPlaying /\ ~isFlipped

\* C26: each progress-ticker firing sets progress to progress + 1 when
\* progress < 100 and to 0 when progress >= 100.
C26_TickValue ==
    [][lastOp' = "tick"
         => progress' = IF progress < 100 THEN progress + 1 ELSE 0]_vars

C26_Witness == lastOp = "tick" /\ hadProgress /\ progress = 0

\* C27: togglePlay() while not flipped negates isPlaying, leaves the index,
\* isFlipped and pendingResumeAfterFlip unchanged, and when the transition
\* is to playing resets progress to 0 and arms the advance timer and the
\* progress ticker.
C27_TogglePlayUnflipped ==
    [][(lastOp' = "togglePlay" /\ ~isFlipped)
         => /\ isAutoPlaying' = ~isAutoPlaying
            /\ UNCHANGED <<currentCardIndex, isFlipped,
                           wasAutoPlayingBeforeFlip>>
            /\ isAutoPlaying'
                   => /\ progress' = 0
                      /\ Cardinality(Armed(timers', "advance")) = 1
                      /\ Cardinality(Armed(timers', "progress")) = 1]_vars

C27_Witness ==
    /\ lastOp = "togglePlay"
    /\ ~initialAutoPlay
    /\ isAutoPlaying /\ ~isFlipped
    /\ AdvanceTimers # {} /\ ProgressTimers # {}

\* C28: togglePlay() while flipped does not arm the advance timer or the
\* progress ticker and leaves isFlipped, the index and
\* pendingResumeAfterFlip unchanged.
C28_TogglePlayFlipped ==
    [][(lastOp' = "togglePlay" /\ isFlipped)
         => /\ Armed(timers', "advance") = {}
            /\ Armed(timers', "progress") = {}
            /\ UNCHANGED <<currentCardIndex, isFlipped,
                           wasAutoPlayingBeforeFlip>>]_vars

C28_Witness ==
    /\ lastOp = "togglePlay"
    /\ isFlipped /\ isAutoPlaying
    /\ AdvanceTimers = {} /\ ProgressTimers = {}

\* C29: after every touch-end, whether or not it navigated, the recorded
\* start and latest X coordinates are reset to none.
C29_TouchEndDiscards ==
    lastOp = "touchEnd" => touchStart = NoTouch /\ touchEnd = NoTouch

\* C30: a tap (touch-start followed by touch-end with no touch-move) makes
\* no navigate call and leaves the index, whatever the previous gesture
\* left behind.
C30_TapNeverNavigates ==
    [][(/\ lastOp' = "touchEnd"
        /\ \/ lastOp = "touchStart"
           \/ touching /\ touchEnd = NoTouch)
         => /\ navCalls' = <<>>
            /\ currentCardIndex' = currentCardIndex]_vars

C30_Witness ==
    /\ lastOp = "touchEnd" /\ navCalls = <<>>
    /\ touchEnd = NoTouch /\ touchStart = 52
    /\ navRun.dir = "next" /\ navRun.count > 0

\* C31: a gesture with touch-start, at least one touch-move and touch-end
\* navigates next iff startX - endX > 50 and previous iff
\* startX - endX < -50, for every pair of coordinates, 0 included.
C31_SwipeByDistanceOnly ==
    [][(lastOp' = "touchEnd" /\ touching /\ touchEnd # NoTouch)
         => /\ navCalls' = <<"next">> <=> touchStart - touchEnd > 50
            /\ navCalls' = <<"prev">> <=> touchStart - touchEnd < -50]_vars

\* C32: in every reachable state of the mounted component in which neither
\* the advance timer nor the progress ticker is armed (paused, flipped or no
\* items), progress equals 0.
C32_IdleProgressZero ==
    (mounted /\ AdvanceTimers = {} /\ ProgressTimers = {}) => progress = 0

C32_Witness ==
    /\ mounted
    /\ lastOp = "toggleFlip" /\ isFlipped /\ hadProgress
    /\ AdvanceTimers = {} /\ ProgressTimers = {}
    /\ progress = 0

\* C33: navigate(next) followed by navigate(previous), and previous followed
\* by next, returns the index to its original value; a navigate from an
\* un-flipped state leaves isPlaying unchanged and the card un-flipped.
C33_NextPrevRoundTrip ==
    [][/\ (~isFlipped /\ navCalls' # <<>>)
           => isAutoPlaying' = isAutoPlaying /\ ~isFlipped'
       /\ (/\ navCalls # <<>> /\ navCalls' # <<>>
           /\ navCalls' # navCalls
           /\ navRun.count = 1)
           => currentCardIndex' = navRun.start]_vars

C33_Witness ==
    /\ cardsLength = 3
    /\ lastOp = "prevCard"
    /\ navRun = [dir |-> "prev", count |-> 1, start |-> 0]
    /\ currentCardIndex = 2
    /\ isAutoPlaying /\ ~isFlipped

\* C34: in Finitude every navigation step with itemCount > 0 either shows a
\* quote and leaves currentCard unchanged, or shows an activity and moves
\* currentCard by exactly one position modulo itemCount in the direction of
\* the step; in both cases progress is 0 and currentCard is in
\* [0, itemCount).
C34_FinitudeNavigationStep ==
    [][(navCalls' # <<>> /\ cardsLength > 0)
         => /\ progress' = 0
            /\ currentCardIndex' \in 0..(cardsLength - 1)
            /\ \/ /\ currentCardType' = "quote"
                  /\ currentQuote' \in Quotes
                  /\ currentCardIndex' = currentCardIndex
               \/ /\ currentCardType' = "activity"
                  /\ currentQuote' = currentQuote
                  /\ currentCardIndex' =
                        IF navCalls' = <<"next">>
                        THEN (currentCardIndex + 1) % cardsLength
                        ELSE (currentCardIndex - 1 + cardsLength)
                                 % cardsLength]_vars

C34_Witness ==
    /\ cardsLength = 3
    /\ lastOp = "advance" /\ hadProgress
    /\ currentCardType = "quote" /\ currentQuote = "q2"
    /\ currentCardIndex = 1 /\ progress = 0

\* C35: in Finitude, opening the settings view sets isAutoPlaying = false and
\* returning to the main view sets isAutoPlaying = true whatever it was
\* before; neither changes currentCard or isFlipped.
C35_SettingsPlayState ==
    [][/\ lastOp' = "settings"
           => /\ currentView' = "settings" /\ ~isAutoPlaying'
              /\ UNCHANGED <<currentCardIndex, isFlipped>>
       /\ lastOp' = "backToMain"
           => /\ currentView' = "main" /\ isAutoPlaying'
              /\ UNCHANGED <<currentCardIndex, isFlipped>>]_vars

C35_Witness ==
    /\ lastOp = "backToMain"
    /\ isFlipped /\ ~wasAutoPlayingBeforeFlip
    /\ currentCardIndex = 1
    /\ isAutoPlaying

====
